---- MODULE Spec2Model ----
(***************************************************************************)
(* Ticket inventory accounting of the event-ticketing backend:             *)
(* registration creation, payment confirmation and cancellation            *)
(* (src/src/routes/registrationRoutes.js) acting on one Event document     *)
(* (src/src/models/Event.js) and its Registration documents                *)
(* (src/unnamed/part_000).                                                 *)
(*                                                                         *)
(* Every handler is an async function: it runs without interruption from   *)
(* one await to the next, and other requests run while it waits for the    *)
(* database.  One action of the model is one database operation together   *)
(* with the synchronous code that follows it up to the next await.         *)
(* Any awaited operation may throw; the handler's catch answers 500.       *)
(*                                                                         *)
(* save() on a document writes the paths the handler changed since it      *)
(* read the document, with the values the handler computed; a push on an   *)
(* array is sent as an append to the stored array.                         *)
(***************************************************************************)
EXTENDS Integers, Sequences, FiniteSets, TLC

\* ---- bounds of the model ----
MaxReq == 4        \* requests that get past their handler's checks in one behaviour
MaxRegs == 2       \* Registration documents created in one behaviour
MaxQty == 2        \* largest quantity of one requested line

Procs == {1, 2}                 \* requests in flight at the same time
Users == {"u1", "u2"}           \* req.user.id
Buyers == {"u1"}                \* the users who create registrations
EventIds == {"e1", "e0"}        \* "e1" is the event, "e0" matches no document
TierNames == {"A", "B"}         \* names of the event's ticket types
LineNames == TierNames \cup {"X"}   \* "X" names no ticket type

\* ---- documents ----

\* The Event document as created by the organizer: sold and the analytics
\* counters take their schema defaults.
NewEvent(qa, qb) ==
    [ticketTypes |-> << [name |-> "A", price |-> 2, quantity |-> qa, sold |-> 0],
                        [name |-> "B", price |-> 3, quantity |-> qb, sold |-> 0] >>,
     analytics |-> [totalTicketsSold |-> 0, totalRevenue |-> 0],
     attendees |-> << >>]

\* event.ticketTypes.find(tt => tt.name === name): index of the first match, 0 if none
FindTicketType(ev, name) ==
    LET hits == {i \in 1..Len(ev.ticketTypes) : ev.ticketTypes[i].name = name}
    IN IF hits = {} THEN 0 ELSE CHOOSE i \in hits : \A j \in hits : i <= j

\* tickets.reduce((sum, t) => sum + t.quantity, 0)
RECURSIVE TotalTickets(_)
TotalTickets(tickets) ==
    IF tickets = << >> THEN 0
    ELSE tickets[1].quantity + TotalTickets(Tail(tickets))

\* The validation loop, as it would be if it added the tier's price once per line
RECURSIVE ValidateTicketsPricePerLine(_, _, _, _)
ValidateTicketsPricePerLine(ev, tickets, i, total) ==
    IF i > Len(tickets) THEN [err |-> "OK", totalAmount |-> total]
    ELSE LET idx == FindTicketType(ev, tickets[i].ticketType) IN
         IF idx = 0 THEN [err |-> "UnknownTicketType", totalAmount |-> total]
         ELSE IF ev.ticketTypes[idx].quantity - ev.ticketTypes[idx].sold < tickets[i].quantity
              THEN [err |-> "InsufficientInventory", totalAmount |-> total]
              ELSE ValidateTicketsPricePerLine(ev, tickets, i + 1,
                                               total + ev.ticketTypes[idx].price)

\* The validation loop of registration creation: the first failing line decides.
RECURSIVE ValidateTickets(_, _, _, _)
ValidateTickets(ev, tickets, i, total) ==
    IF i > Len(tickets) THEN [err |-> "OK", totalAmount |-> total]
    ELSE LET idx == FindTicketType(ev, tickets[i].ticketType) IN
         IF idx = 0 THEN [err |-> "UnknownTicketType", totalAmount |-> total]
         ELSE IF ev.ticketTypes[idx].quantity - ev.ticketTypes[idx].sold < tickets[i].quantity
              THEN [err |-> "InsufficientInventory", totalAmount |-> total]
              ELSE ValidateTickets(ev, tickets, i + 1,
                                   total + ev.ticketTypes[idx].price * tickets[i].quantity)

\* tickets.map(t => ({ticketType, price: <tier price>, quantity}))
SnapshotTickets(ev, tickets) ==
    [i \in 1..Len(tickets) |->
        [ticketType |-> tickets[i].ticketType,
         price |-> ev.ticketTypes[FindTicketType(ev, tickets[i].ticketType)].price,
         quantity |-> tickets[i].quantity]]

\* The loop "for (const ticket of registration.tickets) ticketType.sold += sign * quantity"
RECURSIVE UpdateSold(_, _, _, _)
UpdateSold(tts, ev, tickets, sign) ==
    IF tickets = << >> THEN tts
    ELSE LET idx == FindTicketType(ev, tickets[1].ticketType)
             nxt == IF idx = 0 THEN tts
                    ELSE [tts EXCEPT ![idx].sold = @ + sign * tickets[1].quantity]
         IN UpdateSold(nxt, ev, Tail(tickets), sign)

\* event.attendees.filter(a => a.toString() !== registration._id.toString())
RemoveAttendee(att, r) == SelectSeq(att, LAMBDA a : a # r)

\* Payment confirmation, the changes made to the event in memory.
Commit(ev, r, reg) ==
    [ticketTypes |-> UpdateSold(ev.ticketTypes, ev, reg.tickets, 1),
     analytics |-> [totalTicketsSold |-> ev.analytics.totalTicketsSold + TotalTickets(reg.tickets),
                    totalRevenue |-> ev.analytics.totalRevenue + reg.totalAmount],
     attendees |-> Append(ev.attendees, r)]

\* Release that forgets analytics.totalRevenue
ReleaseKeepsRevenue(ev, r, reg) ==
    [ticketTypes |-> UpdateSold(ev.ticketTypes, ev, reg.tickets, -1),
     analytics |-> [totalTicketsSold |-> ev.analytics.totalTicketsSold - TotalTickets(reg.tickets),
                    totalRevenue |-> ev.analytics.totalRevenue],
     attendees |-> RemoveAttendee(ev.attendees, r)]

\* Cancellation, the changes made to the event in memory.
Release(ev, r, reg) ==
    [ticketTypes |-> UpdateSold(ev.ticketTypes, ev, reg.tickets, -1),
     analytics |-> [totalTicketsSold |-> ev.analytics.totalTicketsSold - TotalTickets(reg.tickets),
                    totalRevenue |-> ev.analytics.totalRevenue - reg.totalAmount],
     attendees |-> RemoveAttendee(ev.attendees, r)]

\* event.save(): the stored document db after the handler, which read the
\* document as `read` and changed it in memory to `mine`, saves it.  Only the
\* paths whose value the handler changed are written.
SavePaths(db, read, mine) ==
    [ticketTypes |-> [i \in 1..Len(db.ticketTypes) |->
                        IF mine.ticketTypes[i].sold # read.ticketTypes[i].sold
                        THEN [db.ticketTypes[i] EXCEPT !.sold = mine.ticketTypes[i].sold]
                        ELSE db.ticketTypes[i]],
     analytics |-> [totalTicketsSold |->
                        IF mine.analytics.totalTicketsSold # read.analytics.totalTicketsSold
                        THEN mine.analytics.totalTicketsSold
                        ELSE db.analytics.totalTicketsSold,
                    totalRevenue |->
                        IF mine.analytics.totalRevenue # read.analytics.totalRevenue
                        THEN mine.analytics.totalRevenue
                        ELSE db.analytics.totalRevenue],
     attendees |-> db.attendees]

\* event.save() of payment confirmation: the counters, and the pushed attendee
SaveCommit(db, read, r, reg) ==
    [SavePaths(db, read, Commit(read, r, reg)) EXCEPT !.attendees = Append(db.attendees, r)]

\* event.save() of cancellation: the counters, and the reassigned attendee array
SaveRelease(db, read, r, reg) ==
    [SavePaths(db, read, Release(read, r, reg)) EXCEPT
        !.attendees = IF RemoveAttendee(read.attendees, r) # read.attendees
                      THEN RemoveAttendee(read.attendees, r)
                      ELSE db.attendees]

\* ---- state ----
VARIABLES
    event,    \* the stored Event document
    regs,     \* the stored Registration documents; _id is the index
    pc,       \* per request slot: where its handler stands
    op,       \* per request slot: the route being served
    rid,      \* per request slot: req.params.id, or the _id of the created document
    usr,      \* per request slot: req.user.id
    body,     \* per request slot: req.body.tickets of a creation
    lreg,     \* per request slot: the registration as read (<< >> when none)
    lev,      \* per request slot: the event as read (<< >> when none)
    resp,     \* the response sent by the last step ("none" when it sent none)
    nreq,     \* requests that passed their handler's checks so far
    trail     \* history: a commit immediately followed by a release of the same registration

vars == <<event, regs, pc, op, rid, usr, body, lreg, lev, resp, nreq, trail>>

NoTrail == [stage |-> "none", r |-> 0, pre |-> << >>]

Lines == [ticketType : LineNames, quantity : 1..MaxQty]

\* req.body.tickets: the requests of one line
TicketLists == {<<l>> : l \in Lines}

\* req.body.tickets: the requests of one line and those of two lines
LineLists == TicketLists \cup {<<l, m>> : l, m \in Lines}

Init ==
    /\ event = NewEvent(1, 2)
    /\ regs = << >>
    /\ pc = [p \in Procs |-> "idle"]
    /\ op = [p \in Procs |-> "none"]
    /\ rid = [p \in Procs |-> 0]
    /\ usr = [p \in Procs |-> "none"]
    /\ body = [p \in Procs |-> << >>]
    /\ lreg = [p \in Procs |-> << >>]
    /\ lev = [p \in Procs |-> << >>]
    /\ resp = "none"
    /\ nreq = 0
    /\ trail = NoTrail

Quiet(p) == \A q \in Procs \ {p} : pc[q] = "idle"

\* The _id of a registration reaches its client when the creating request ends;
\* until then no request names it.
Creating(r) == \E q \in Procs : op[q] = "create" /\ rid[q] = r

\* A request is served in the lowest free slot.
Free(p) == pc[p] = "idle" /\ \A q \in Procs : q < p => pc[q] # "idle"

\* The handler of slot p answers `code` and the slot is free again.
Respond(p, code) ==
    /\ pc' = [pc EXCEPT ![p] = "idle"]
    /\ op' = [op EXCEPT ![p] = "none"]
    /\ rid' = [rid EXCEPT ![p] = 0]
    /\ usr' = [usr EXCEPT ![p] = "none"]
    /\ body' = [body EXCEPT ![p] = << >>]
    /\ lreg' = [lreg EXCEPT ![p] = << >>]
    /\ lev' = [lev EXCEPT ![p] = << >>]
    /\ resp' = code

\* The handler of slot p goes on to step `next`.
Goto(p, next) ==
    /\ pc' = [pc EXCEPT ![p] = next]
    /\ resp' = "none"

Accept(p, route, r, u) ==
    /\ Free(p)
    /\ nreq < MaxReq
    /\ nreq' = nreq + 1
    /\ op' = [op EXCEPT ![p] = route]
    /\ rid' = [rid EXCEPT ![p] = r]
    /\ usr' = [usr EXCEPT ![p] = u]

\* The handler of slot p answers `code` before its first write.
Reject(p, code) ==
    /\ Free(p)
    /\ resp' = code
    /\ UNCHANGED <<pc, op, rid, usr, body, lreg, lev, nreq>>

\* ---- POST /api/registrations ----

\* Event.findById and the validation loop
CreateFind(p, u, e, tickets) ==
    /\ Len(regs) + Cardinality({q \in Procs : pc[q] = "create"}) < MaxRegs
    /\ LET v == ValidateTickets(event, tickets, 1, 0) IN
       IF e # "e1" THEN Reject(p, "NotFound")
       ELSE IF v.err # "OK" THEN Reject(p, v.err)
       ELSE /\ Accept(p, "create", 0, u)
            /\ Goto(p, "create")
            /\ body' = [body EXCEPT ![p] = tickets]
            /\ lev' = [lev EXCEPT ![p] = <<event>>]
            /\ UNCHANGED lreg
    /\ trail' = NoTrail
    /\ UNCHANGED <<event, regs>>

\* Registration.create, as it would be if a reservation held inventory
CreateInsertHoldsInventory(p) ==
    /\ pc[p] = "create"
    /\ regs' = Append(regs,
                 [user |-> usr[p],
                  tickets |-> SnapshotTickets(lev[p][1], body[p]),
                  totalAmount |-> ValidateTickets(lev[p][1], body[p], 1, 0).totalAmount,
                  paymentStatus |-> "pending",
                  status |-> "active"])
    /\ rid' = [rid EXCEPT ![p] = Len(regs) + 1]
    /\ Goto(p, "saveQr")
    /\ event' = [event EXCEPT !.ticketTypes = UpdateSold(event.ticketTypes, event, body[p], 1)]
    /\ UNCHANGED <<op, usr, body, lreg, lev, nreq, trail>>

\* Registration.create
CreateInsert(p) ==
    /\ pc[p] = "create"
    /\ regs' = Append(regs,
                 [user |-> usr[p],
                  tickets |-> SnapshotTickets(lev[p][1], body[p]),
                  totalAmount |-> ValidateTickets(lev[p][1], body[p], 1, 0).totalAmount,
                  paymentStatus |-> "pending",
                  status |-> "active"])
    /\ rid' = [rid EXCEPT ![p] = Len(regs) + 1]
    /\ Goto(p, "saveQr")
    /\ UNCHANGED <<event, op, usr, body, lreg, lev, nreq, trail>>

\* QRCode.toDataURL and registration.save(), which writes qrCode alone (a field
\* no handler reads, left out of the registration record), and the response
CreateSaveQr(p) ==
    /\ pc[p] = "saveQr"
    /\ Respond(p, "OK")
    /\ UNCHANGED <<event, regs, nreq, trail>>

\* ---- PUT /api/registrations/:id/payment ----

\* Registration.findById, the checks, and the changes in memory
PaymentFind(p, r, u) ==
    /\ ~Creating(r)
    /\ IF r \notin DOMAIN regs THEN Reject(p, "NotFound")
       ELSE IF regs[r].user # u THEN Reject(p, "NotAuthorized")
       ELSE /\ Accept(p, "payment", r, u)
            /\ Goto(p, "saveReg")
            /\ lreg' = [lreg EXCEPT ![p] = <<regs[r]>>]
            /\ UNCHANGED <<body, lev>>
    /\ trail' = IF /\ r \in DOMAIN regs
                   /\ regs[r].user = u
                   /\ Quiet(p)
                   /\ regs[r].paymentStatus = "pending"
                   /\ regs[r].status = "active"
                THEN [stage |-> "commit", r |-> r, pre |-> <<event>>]
                ELSE NoTrail
    /\ UNCHANGED <<event, regs>>

\* registration.save()
PaymentSaveReg(p) ==
    /\ pc[p] = "saveReg"
    /\ op[p] = "payment"
    /\ regs' = [regs EXCEPT ![rid[p]].paymentStatus = "completed"]
    /\ Goto(p, "findEvent")
    /\ UNCHANGED <<event, op, rid, usr, body, lreg, lev, nreq, trail>>

\* Event.findById
PaymentFindEvent(p) ==
    /\ pc[p] = "findEvent"
    /\ op[p] = "payment"
    /\ lev' = [lev EXCEPT ![p] = <<event>>]
    /\ Goto(p, "saveEvent")
    /\ UNCHANGED <<event, regs, op, rid, usr, body, lreg, nreq, trail>>

\* event.save() and the response
PaymentSaveEvent(p) ==
    /\ pc[p] = "saveEvent"
    /\ op[p] = "payment"
    /\ event' = SaveCommit(event, lev[p][1], rid[p], lreg[p][1])
    /\ Respond(p, "OK")
    /\ trail' = IF trail.stage = "commit" THEN [trail EXCEPT !.stage = "committed"] ELSE NoTrail
    /\ UNCHANGED <<regs, nreq>>

\* ---- PUT /api/registrations/:id/cancel ----

\* The guard reading paymentStatus where status is meant
IsCancelledWrongField(reg) == reg.paymentStatus = "cancelled"

\* registration.status === 'cancelled'
IsCancelled(reg) == reg.status = "cancelled"

\* Registration.findById, the checks, and the change in memory
CancelFind(p, r, u) ==
    /\ ~Creating(r)
    /\ IF r \notin DOMAIN regs THEN Reject(p, "NotFound")
       ELSE IF regs[r].user # u THEN Reject(p, "NotAuthorized")
       ELSE IF IsCancelled(regs[r]) THEN Reject(p, "AlreadyCancelled")
       ELSE /\ Accept(p, "cancel", r, u)
            /\ Goto(p, "saveReg")
            /\ lreg' = [lreg EXCEPT ![p] = <<regs[r]>>]
            /\ UNCHANGED <<body, lev>>
    /\ trail' = IF /\ trail.stage = "committed"
                   /\ trail.r = r
                   /\ r \in DOMAIN regs
                   /\ regs[r].user = u
                   /\ regs[r].status # "cancelled"
                THEN [trail EXCEPT !.stage = "release"]
                ELSE NoTrail
    /\ UNCHANGED <<event, regs>>

\* registration.save()
CancelSaveReg(p) ==
    /\ pc[p] = "saveReg"
    /\ op[p] = "cancel"
    /\ regs' = [regs EXCEPT ![rid[p]].status = "cancelled"]
    /\ Goto(p, "findEvent")
    /\ UNCHANGED <<event, op, rid, usr, body, lreg, lev, nreq, trail>>

\* Event.findById
CancelFindEvent(p) ==
    /\ pc[p] = "findEvent"
    /\ op[p] = "cancel"
    /\ lev' = [lev EXCEPT ![p] = <<event>>]
    /\ Goto(p, "saveEvent")
    /\ UNCHANGED <<event, regs, op, rid, usr, body, lreg, nreq, trail>>

\* event.save() and the response
CancelSaveEvent(p) ==
    /\ pc[p] = "saveEvent"
    /\ op[p] = "cancel"
    /\ event' = SaveRelease(event, lev[p][1], rid[p], lreg[p][1])
    /\ Respond(p, "OK")
    /\ trail' = IF trail.stage = "release" THEN [trail EXCEPT !.stage = "released"] ELSE NoTrail
    /\ UNCHANGED <<regs, nreq>>

\* ---- catch (error): the awaited operation throws, nothing is written ----
Fail(p) ==
    /\ pc[p] # "idle"
    /\ Respond(p, "ServerError")
    /\ trail' = NoTrail
    /\ UNCHANGED <<event, regs, nreq>>

Next ==
    \/ \E p \in Procs, u \in Buyers, e \in EventIds, t \in TicketLists : CreateFind(p, u, e, t)
    \/ \E p \in Procs : CreateInsert(p)
    \/ \E p \in Procs : CreateSaveQr(p)
    \/ \E p \in Procs, r \in 1..MaxRegs, u \in Users : PaymentFind(p, r, u)
    \/ \E p \in Procs : PaymentSaveReg(p)
    \/ \E p \in Procs : PaymentFindEvent(p)
    \/ \E p \in Procs : PaymentSaveEvent(p)
    \/ \E p \in Procs, r \in 1..MaxRegs, u \in Users : CancelFind(p, r, u)
    \/ \E p \in Procs : CancelSaveReg(p)
    \/ \E p \in Procs : CancelFindEvent(p)
    \/ \E p \in Procs : CancelSaveEvent(p)
    \/ \E p \in Procs : Fail(p)

Spec == Init /\ [][Next]_vars

\* ---- registration creation alone, with requests of several lines ----

\* A registration of one line as the creation handler stores it, then paid or not.
MadeOf(ev, t, paid) ==
    [user |-> "u1",
     tickets |-> SnapshotTickets(ev, t),
     totalAmount |-> ValidateTickets(ev, t, 1, 0).totalAmount,
     paymentStatus |-> IF paid THEN "completed" ELSE "pending",
     status |-> "active"]

\* The event and its registrations after n requests of one line were served one
\* after the other, each registration created and then either paid or left pending.
RECURSIVE ServedOneByOne(_)
ServedOneByOne(n) ==
    IF n = 0 THEN {[event |-> NewEvent(1, 2), regs |-> << >>]}
    ELSE {[event |-> IF x[3] THEN Commit(x[1].event, Len(x[1].regs) + 1, MadeOf(x[1].event, x[2], x[3]))
                     ELSE x[1].event,
           regs |-> Append(x[1].regs, MadeOf(x[1].event, x[2], x[3]))] :
            x \in {y \in ServedOneByOne(n - 1) \X TicketLists \X BOOLEAN :
                      ValidateTickets(y[1].event, y[2], 1, 0).err = "OK"}}

\* One more registration can be created.
InitCreate ==
    /\ \E h \in ServedOneByOne(MaxRegs - 1) : event = h.event /\ regs = h.regs
    /\ pc = [p \in Procs |-> "idle"]
    /\ op = [p \in Procs |-> "none"]
    /\ rid = [p \in Procs |-> 0]
    /\ usr = [p \in Procs |-> "none"]
    /\ body = [p \in Procs |-> << >>]
    /\ lreg = [p \in Procs |-> << >>]
    /\ lev = [p \in Procs |-> << >>]
    /\ resp = "none"
    /\ nreq = 0
    /\ trail = NoTrail

\* The requests name the event.
NextCreate ==
    \/ \E p \in Procs, u \in Buyers, t \in LineLists : CreateFind(p, u, "e1", t)
    \/ \E p \in Procs : CreateInsert(p)
    \/ \E p \in Procs : CreateSaveQr(p)
    \/ \E p \in Procs : Fail(p)

SpecCreate == InitCreate /\ [][NextCreate]_vars

\* ======================= properties =======================

AllIdle == \A p \in Procs : pc[p] = "idle"
Tiers == 1..Len(event.ticketTypes)
Remaining(ev, i) == ev.ticketTypes[i].quantity - ev.ticketTypes[i].sold
InAttendees(ev, r) == \E k \in 1..Len(ev.attendees) : ev.attendees[k] = r
Counted(r) == regs[r].paymentStatus = "completed" /\ regs[r].status = "active"

RECURSIVE SumSold(_)
SumSold(tts) == IF tts = << >> THEN 0 ELSE tts[1].sold + SumSold(Tail(tts))

RECURSIVE SumCounted(_)
SumCounted(n) ==
    IF n = 0 THEN 0
    ELSE (IF Counted(n) THEN TotalTickets(regs[n].tickets) ELSE 0) + SumCounted(n - 1)

\* The one line of a registration that orders `qty` units of tier i
OrdersOnly(reg, i, qty) ==
    /\ Len(reg.tickets) = 1
    /\ reg.tickets[1].ticketType = event.ticketTypes[i].name
    /\ reg.tickets[1].quantity = qty

\* C1: in every reachable state every ticket tier has 0 <= sold <= quantity.
C1_SoldWithinQuantity ==
    \A i \in Tiers : /\ 0 <= event.ticketTypes[i].sold
                     /\ event.ticketTypes[i].sold <= event.ticketTypes[i].quantity

\* C2: a payment confirmation invoked on a registration whose commit is
\* already applied (paymentStatus completed, counted in the event) is answered
\* AlreadyCompleted, its handler goes no further, and it changes neither the
\* event nor the registrations.
C2_CommitAtMostOnce ==
    [][\A p \in Procs, r \in DOMAIN regs :
          ( /\ AllIdle
            /\ PaymentFind(p, r, regs[r].user)
            /\ regs[r].paymentStatus = "completed"
            /\ InAttendees(event, r) )
              => (resp' = "AlreadyCompleted" /\ pc'[p] = "idle" /\ UNCHANGED <<event, regs>>)]_vars

\* C3: the Registration and the Event change together: once every handler has
\* ended, normally or by a failure between its two writes, a registration is
\* completed and active exactly when the event save of its commit (counters
\* and attendee entry) is in the stored event.
C3_RecordsChangeTogether ==
    AllIdle => \A r \in DOMAIN regs : Counted(r) <=> InAttendees(event, r)

\* C4: a commit of 1 unit that read exactly 1 remaining unit of a tier, while
\* another registration's commit of 1 unit of that tier has since taken it,
\* fails with InsufficientInventory and writes nothing.
C4_LastUnitCommittedOnce ==
    [][\A p \in Procs, i \in Tiers :
          ( /\ PaymentSaveEvent(p)
            /\ OrdersOnly(lreg[p][1], i, 1)
            /\ Remaining(lev[p][1], i) = 1
            /\ Remaining(event, i) = 0
            /\ \E r \in DOMAIN regs : /\ r # rid[p]
                                      /\ OrdersOnly(regs[r], i, 1)
                                      /\ InAttendees(event, r)
                                      /\ ~InAttendees(lev[p][1], r) )
              => (resp' = "InsufficientInventory" /\ event' = event)]_vars

\* C5: no update is lost between interleaved commits: a commit's save raises
\* the stored sold counters and analytics by that registration's deltas, also
\* when commits of other registrations were saved since its handler read the
\* event.
C5_NoLostUpdate ==
    [][\A p \in Procs :
          ( /\ PaymentSaveEvent(p)
            /\ Len(event.attendees) > Len(lev[p][1].attendees)
            /\ SubSeq(event.attendees, 1, Len(lev[p][1].attendees)) = lev[p][1].attendees
            /\ \A k \in (Len(lev[p][1].attendees) + 1)..Len(event.attendees) :
                    event.attendees[k] # rid[p] )
              => /\ event'.ticketTypes = Commit(event, rid[p], lreg[p][1]).ticketTypes
                 /\ event'.analytics = Commit(event, rid[p], lreg[p][1]).analytics]_vars

\* C6: the cancellation of a registration whose payment is not completed
\* leaves the event (sold, analytics, attendees) unchanged.
C6_ReleaseOfUnpaidKeepsCounters ==
    [][\A p \in Procs :
          ( /\ CancelSaveEvent(p)
            /\ lreg[p][1].paymentStatus # "completed"
            /\ regs[rid[p]].paymentStatus # "completed" )
              => event' = event]_vars

C8_AnalyticsMatchCompleted ==
    AllIdle => /\ event.analytics.totalTicketsSold = SumSold(event.ticketTypes)
               /\ event.analytics.totalTicketsSold = SumCounted(Len(regs))

\* C9: cancelled is terminal: a payment confirmation invoked on a registration
\* whose status is cancelled is not accepted, its handler goes no further, and
\* neither the registration's status and paymentStatus nor the event changes.
C9_CancelledIsTerminal ==
    [][\A p \in Procs, r \in DOMAIN regs :
          (AllIdle /\ PaymentFind(p, r, regs[r].user) /\ regs[r].status = "cancelled")
              => (pc'[p] = "idle" /\ UNCHANGED <<event, regs>>)]_vars

C11_ReserveKeepsEvent ==
    [][(\/ \E p \in Procs : /\ op[p] = "create" \/ op'[p] = "create"
                            /\ pc'[p] # pc[p]
        \/ resp' \in {"UnknownTicketType", "InsufficientInventory"})
       => event' = event]_vars

\* a creation has answered 201, its registration is pending and unpaid, and
\* the event holds nothing for it
C11_Witness ==
    /\ AllIdle
    /\ resp = "OK"
    /\ regs # << >>
    /\ \A r \in DOMAIN regs : regs[r].paymentStatus = "pending" /\ regs[r].status = "active"
    /\ SumSold(event.ticketTypes) = 0
    /\ event = NewEvent(1, 2)

\* ---- the lines of a creation request, read off the event ----
NamesNoTier(ev, l) == \A k \in 1..Len(ev.ticketTypes) : ev.ticketTypes[k].name # l.ticketType
LacksInventory(ev, l) ==
    \E k \in 1..Len(ev.ticketTypes) :
        ev.ticketTypes[k].name = l.ticketType /\ Remaining(ev, k) < l.quantity
FailingLines(ev, t) == {i \in 1..Len(t) : NamesNoTier(ev, t[i]) \/ LacksInventory(ev, t[i])}
FirstFailing(ev, t) == CHOOSE i \in FailingLines(ev, t) : \A j \in FailingLines(ev, t) : i <= j
PriceOf(ev, name) == (CHOOSE tt \in {ev.ticketTypes[k] : k \in 1..Len(ev.ticketTypes)} : tt.name = name).price

RECURSIVE PriceOfLines(_, _, _)
PriceOfLines(ev, t, n) ==
    IF n = 0 THEN 0
    ELSE PriceOfLines(ev, t, n - 1) + PriceOf(ev, t[n].ticketType) * t[n].quantity

\* Registration.create of slot p adds a pending, active registration of the
\* requested lines, priced at the tiers' current prices.
CreatedAsRequested ==
    \A p \in Procs :
        (pc[p] = "create" /\ pc'[p] = "saveQr") =>
            /\ FailingLines(lev[p][1], body[p]) = {}
            /\ Len(regs') = Len(regs) + 1
            /\ SubSeq(regs', 1, Len(regs)) = regs
            /\ LET new == regs'[Len(regs')] IN
                 /\ new.paymentStatus = "pending"
                 /\ new.status = "active"
                 /\ new.user = usr[p]
                 /\ Len(new.tickets) = Len(body[p])
                 /\ \A i \in 1..Len(body[p]) :
                        /\ new.tickets[i].ticketType = body[p][i].ticketType
                        /\ new.tickets[i].quantity = body[p][i].quantity
                 /\ new.totalAmount = PriceOfLines(event, body[p], Len(body[p]))

\* A registration is added by Registration.create alone.
CreatedByInsertOnly ==
    regs' # regs => \E p \in Procs : pc[p] = "create" /\ pc'[p] = "saveQr"

\* C12 (amended): the lines of a creation request are checked in request
\* order and the first failing line decides the answer: UnknownTicketType if
\* it names no tier of the event, InsufficientInventory if quantity - sold of
\* its tier is less than the requested quantity.  In both cases no
\* registration is created.  With no failing line the request goes on to
\* create a pending, active registration whose totalAmount is the sum over
\* the lines of the tier's current price times the requested quantity.
C12_FirstFailingLineDecides ==
    [][/\ \A p \in Procs : (Free(p) /\ (pc'[p] = "create" \/ resp' # "none")) =>
             \A u \in Buyers, t \in LineLists : CreateFind(p, u, "e1", t) =>
                 IF FailingLines(event, t) = {}
                 THEN pc'[p] = "create" /\ body'[p] = t /\ regs' = regs
                 ELSE /\ resp' = IF NamesNoTier(event, t[FirstFailing(event, t)])
                                 THEN "UnknownTicketType"
                                 ELSE "InsufficientInventory"
                      /\ pc'[p] = "idle"
                      /\ regs' = regs
       /\ CreatedAsRequested
       /\ CreatedByInsertOnly]_vars

\* a request of two lines with no failing line has created its registration
C12_Witness ==
    /\ resp = "OK"
    /\ regs # << >>
    /\ LET new == regs[Len(regs)] IN
         /\ new.paymentStatus = "pending"
         /\ Len(new.tickets) = 2
         /\ new.tickets[1].ticketType # new.tickets[2].ticketType
         /\ new.totalAmount = 2 * new.tickets[1].quantity + 3 * new.tickets[2].quantity

\* C12 (as stated): any line that names no tier makes the creation fail with
\* UnknownTicketType, any line whose tier lacks inventory makes it fail with
\* InsufficientInventory, in both cases no registration is created, and
\* with no such line the registration is created as requested.
C12_AnyLineDecides ==
    [][/\ \A p \in Procs : (Free(p) /\ (pc'[p] = "create" \/ resp' # "none")) =>
             \A u \in Buyers, t \in LineLists : CreateFind(p, u, "e1", t) =>
                 /\ (\E i \in 1..Len(t) : NamesNoTier(event, t[i]))
                        => (resp' = "UnknownTicketType" /\ pc'[p] = "idle" /\ regs' = regs)
                 /\ (\E i \in 1..Len(t) : LacksInventory(event, t[i]))
                        => (resp' = "InsufficientInventory" /\ pc'[p] = "idle" /\ regs' = regs)
                 /\ FailingLines(event, t) = {}
                        => (pc'[p] = "create" /\ body'[p] = t /\ regs' = regs)
       /\ CreatedAsRequested
       /\ CreatedByInsertOnly]_vars

====
